---- MODULE Spec2Model ----
(***************************************************************************)
(* A model of make_calendar.py: the text escaping, the first-occurrence    *)
(* scan, the weekly view, the ICS builder and the run of main().           *)
(*                                                                         *)
(* A Python str is a sequence of one-character strings; a date is its      *)
(* proleptic Gregorian ordinal (date.toordinal()).                         *)
(***************************************************************************)
EXTENDS Integers, Sequences, FiniteSets, TLC

VARIABLES
    arg,        \* the argument a function is called with on its own
    ret,        \* its result, or Pending before the call
    pc,         \* main(): the statement the run is at
    input,      \* courses.json: "missing", "malformed" or the parsed document
    cfg,        \* main(): term, term_start, term_end, events once loaded
    idx,        \* main(): the validation loop's i (1-indexed)
    err,        \* the exception that ended the run, or NoErr
    console,    \* the lines printed so far
    ics,        \* ics_text, the lines build_ics returned, or NotBuilt
    file,       \* the content of school_calendar.ics on disk
    run         \* the number of the process (each has its own hash seed)

vars == <<arg, ret, pc, input, cfg, idx, err, console, ics, file, run>>

----------------------------------------------------------------------------
(* Characters and strings *)

BS == "\\"
CR == "\r"
LF == "\n"

Pending == [tag |-> "pending", val |-> 0]

RECURSIVE StartsWith(_, _)
StartsWith(s, p) ==
    IF p = <<>> THEN TRUE
    ELSE IF s = <<>> THEN FALSE
    ELSE Head(s) = Head(p) /\ StartsWith(Tail(s), Tail(p))

RECURSIVE Drop(_, _)
Drop(s, n) == IF n = 0 \/ s = <<>> THEN s ELSE Drop(Tail(s), n - 1)

\* str.replace(old, new) for a non-empty old: left to right, non-overlapping.
RECURSIVE Replace(_, _, _)
Replace(s, old, new) ==
    IF s = <<>> THEN <<>>
    ELSE IF StartsWith(s, old) THEN new \o Replace(Drop(s, Len(old)), old, new)
    ELSE <<Head(s)>> \o Replace(Tail(s), old, new)

\* ics_escape with the backslash replaced last instead of first (faulty).
ics_escape_backslash_last(s) ==
    Replace(
     Replace(
      Replace(
       Replace(
        Replace(
         Replace(s, <<CR, LF>>, <<LF>>),
         <<CR>>, <<LF>>),
        <<LF>>, <<BS, "n">>),
       <<",">>, <<BS, ",">>),
      <<";">>, <<BS, ";">>),
     <<BS>>, <<BS, BS>>)

\* ics_escape without the replacement of the lone CR (faulty).
ics_escape_no_cr(s) ==
    Replace(
     Replace(
      Replace(
       Replace(
        Replace(s, <<BS>>, <<BS, BS>>),
        <<CR, LF>>, <<LF>>),
       <<LF>>, <<BS, "n">>),
      <<",">>, <<BS, ",">>),
     <<";">>, <<BS, ";">>)

ics_escape(s) ==
    Replace(
     Replace(
      Replace(
       Replace(
        Replace(
         Replace(s, <<BS>>, <<BS, BS>>),
         <<CR, LF>>, <<LF>>),
        <<CR>>, <<LF>>),
       <<LF>>, <<BS, "n">>),
      <<",">>, <<BS, ",">>),
     <<";">>, <<BS, ";">>)

----------------------------------------------------------------------------
(* Dates *)

DAY_MAP ==
    [d \in {"MO", "TU", "WE", "TH", "FR", "SA", "SU"} |->
        CASE d = "MO" -> 0 [] d = "TU" -> 1 [] d = "WE" -> 2 [] d = "TH" -> 3
          [] d = "FR" -> 4 [] d = "SA" -> 5 [] d = "SU" -> 6]

\* date.max.toordinal(): date.fromordinal raises ValueError beyond it.
MAXORDINAL == 3652059

\* date.weekday(): Monday is 0; ordinal 1 (0001-01-01) is a Monday.
weekday(d) == (d + 6) % 7

NoneDate == [tag |-> "None", val |-> 0]
RaisedDate == [tag |-> "ValueError", val |-> 0]
SomeDate(d) == [tag |-> "date", val |-> d]

\* The while loop of first_matching_date, from the date d.
RECURSIVE scan(_, _, _)
scan(d, term_end, wanted) ==
    IF ~(d <= term_end) THEN NoneDate
    ELSE IF weekday(d) \in wanted THEN SomeDate(d)
    ELSE IF d + 1 > MAXORDINAL THEN RaisedDate
    ELSE scan(d + 1, term_end, wanted)

first_matching_date(term_start, term_end, days) ==
    scan(term_start, term_end, {DAY_MAP[x] : x \in {days[i] : i \in DOMAIN days}})

\* datetime's _is_leap, _days_before_year, _days_in_month, _days_before_month.
is_leap(year) == year % 4 = 0 /\ (year % 100 # 0 \/ year % 400 = 0)

days_before_year(year) ==
    LET y == year - 1 IN y * 365 + (y \div 4) - (y \div 100) + (y \div 400)

DAYS_IN_MONTH == <<31, 28, 31, 30, 31, 30, 31, 31, 30, 31, 30, 31>>

DAYS_BEFORE_MONTH == <<0, 31, 59, 90, 120, 151, 181, 212, 243, 273, 304, 334>>

days_in_month(year, month) ==
    IF month = 2 /\ is_leap(year) THEN 29 ELSE DAYS_IN_MONTH[month]

days_before_month(year, month) ==
    DAYS_BEFORE_MONTH[month] + (IF month > 2 /\ is_leap(year) THEN 1 ELSE 0)

ymd2ord(year, month, day) ==
    days_before_year(year) + days_before_month(year, month) + day

\* date.fromisoformat of the text YYYY-MM-DD, given as its three numbers:
\* the date's ordinal, or ValueError for a date that does not exist.
fromisoformat(t) ==
    IF /\ t.y \in 1..9999
       /\ t.m \in 1..12
       /\ t.d \in 1..days_in_month(t.y, t.m)
    THEN SomeDate(ymd2ord(t.y, t.m, t.d))
    ELSE RaisedDate

\* datetime's _ord2ymd.
ord2ymd(ordinal) ==
    LET n0   == ordinal - 1
        n400 == n0 \div 146097
        r400 == n0 % 146097
        n100 == r400 \div 36524
        r100 == r400 % 36524
        n4   == r100 \div 1461
        r4   == r100 % 1461
        n1   == r4 \div 365
        n    == r4 % 365
        year == n400 * 400 + 1 + n100 * 100 + n4 * 4 + n1
        leapyear == n1 = 3 /\ (n4 # 24 \/ n100 = 3)
        leap1 == IF leapyear THEN 1 ELSE 0
        month0 == (n + 50) \div 32
        prec0 == DAYS_BEFORE_MONTH[month0] + (IF month0 > 2 THEN leap1 ELSE 0)
        month == IF prec0 > n THEN month0 - 1 ELSE month0
        prec == IF prec0 > n
                THEN prec0 - (DAYS_IN_MONTH[month] + (IF month = 2 THEN leap1 ELSE 0))
                ELSE prec0
    IN  IF n1 = 4 \/ n100 = 4
        THEN [y |-> year - 1, m |-> 12, d |-> 31]
        ELSE [y |-> year, m |-> month, d |-> n - prec + 1]

DigitChars == <<"0", "1", "2", "3", "4", "5", "6", "7", "8", "9">>

IsDigit(c) == \E i \in DOMAIN DigitChars : DigitChars[i] = c

DigitVal(c) == (CHOOSE i \in DOMAIN DigitChars : DigitChars[i] = c) - 1

\* A number as decimal digits, zero-padded to the width (strftime's %Y, %m, ...).
RECURSIVE Pad(_, _)
Pad(n, width) ==
    IF width = 0 THEN <<>> ELSE Pad(n \div 10, width - 1) \o <<DigitChars[(n % 10) + 1]>>

\* datetime.combine(d, t).strftime("%Y%m%dT%H%M%S") for a four-digit year.
strftime(d, t) ==
    LET c == ord2ymd(d)
    IN  Pad(c.y, 4) \o Pad(c.m, 2) \o Pad(c.d, 2) \o <<"T">>
        \o Pad(t.h, 2) \o Pad(t.m, 2) \o Pad(t.s, 2)

----------------------------------------------------------------------------
(* Times of day *)

\* str.split(":"): the parts between the colons.
RECURSIVE split(_, _)
split(s, cur) ==
    IF s = <<>> THEN <<cur>>
    ELSE IF Head(s) = ":" THEN <<cur>> \o split(Tail(s), <<>>)
    ELSE split(Tail(s), Append(cur, Head(s)))

RECURSIVE lstrip(_)
lstrip(s) == IF s # <<>> /\ Head(s) = " " THEN lstrip(Tail(s)) ELSE s

RECURSIVE rstrip(_)
rstrip(s) ==
    IF s # <<>> /\ s[Len(s)] = " " THEN rstrip(SubSeq(s, 1, Len(s) - 1)) ELSE s

RECURSIVE DigitsValue(_, _)
DigitsValue(s, acc) ==
    IF s = <<>> THEN acc ELSE DigitsValue(Tail(s), acc * 10 + DigitVal(Head(s)))

BadInt == [ok |-> FALSE, val |-> 0]

\* int(s) on text of digits, spaces and signs: surrounding whitespace is
\* stripped, one sign is allowed, and at least one digit must follow.
int(s) ==
    LET t == rstrip(lstrip(s))
        signed == t # <<>> /\ Head(t) \in {"+", "-"}
        digits == IF signed THEN Tail(t) ELSE t
    IN  IF digits = <<>> \/ \E i \in DOMAIN digits : ~IsDigit(digits[i])
        THEN BadInt
        ELSE [ok  |-> TRUE,
              val |-> IF signed /\ Head(t) = "-"
                      THEN 0 - DigitsValue(digits, 0)
                      ELSE DigitsValue(digits, 0)]

BadTime(msg) == [ok |-> FALSE, h |-> 0, m |-> 0, s |-> 0, msg |-> msg]

\* parse_hhmm: the time of day, or the ValueError that split's unpacking,
\* int() or time() raises.
parse_hhmm(value) ==
    LET parts == split(value, <<>>)
    IN  IF Len(parts) < 2 THEN BadTime("not enough values to unpack")
        ELSE IF Len(parts) > 2 THEN BadTime("too many values to unpack")
        ELSE LET hh == int(parts[1])
                 mm == int(parts[2])
             IN  IF ~hh.ok \/ ~mm.ok THEN BadTime("invalid literal for int()")
                 ELSE IF hh.val \notin 0..23 THEN BadTime("hour must be in 0..23")
                 ELSE IF mm.val \notin 0..59 THEN BadTime("minute must be in 0..59")
                 ELSE [ok |-> TRUE, h |-> hh.val, m |-> mm.val, s |-> 0, msg |-> ""]

\* ord(c) for the characters a time string is drawn from.
Ord(c) ==
    CASE c = " " -> 32 [] c = "+" -> 43 [] c = "-" -> 45 [] c = ":" -> 58
      [] c = "x" -> 120
      [] OTHER -> 48 + DigitVal(c)

\* Python's a < b on str: by code point, a proper prefix first.
RECURSIVE StrLess(_, _)
StrLess(a, b) ==
    IF b = <<>> THEN FALSE
    ELSE IF a = <<>> THEN TRUE
    ELSE IF Head(a) # Head(b) THEN Ord(Head(a)) < Ord(Head(b))
    ELSE StrLess(Tail(a), Tail(b))

----------------------------------------------------------------------------
(* Events *)

\* e.get(key, ""): the optional text fields.
get(e, key) == IF key \in DOMAIN e THEN e[key] ELSE <<>>

\* d in e["days"]
InDays(d, e) == \E i \in DOMAIN e.days : e.days[i] = d

----------------------------------------------------------------------------
(* print_week_view *)

order == <<"MO", "TU", "WE", "TH", "FR", "SA", "SU">>

\* One printed line.
Line(kind, day, start, end, title) ==
    [kind |-> kind, day |-> day, start |-> start, end |-> end, title |-> title]

TextLine(kind) == Line(kind, "", <<>>, <<>>, <<>>)

\* items.sort(key=lambda e: e["start"]): a stable sort on the start text.
RECURSIVE insert_by_start(_, _)
insert_by_start(sorted, e) ==
    IF sorted = <<>> THEN <<e>>
    ELSE IF StrLess(e.start, Head(sorted).start) THEN <<e>> \o sorted
    ELSE <<Head(sorted)>> \o insert_by_start(Tail(sorted), e)

RECURSIVE sort_by_start(_)
sort_by_start(items) ==
    IF items = <<>> THEN <<>>
    ELSE insert_by_start(sort_by_start(SubSeq(items, 1, Len(items) - 1)),
                         items[Len(items)])

\* The events listed under the weekday d, in the order printed.
day_items(events, d) ==
    sort_by_start(SelectSeq(events, LAMBDA e : InDays(d, e)))

\* What the body of the loop over order prints for the weekday d.
day_lines(events, d) ==
    LET items == day_items(events, d)
    IN  <<TextLine(""), Line("day", d, <<>>, <<>>, <<>>)>>
        \o (IF items = <<>>
            THEN <<TextLine("  (none)")>>
            ELSE [i \in 1..Len(items) |->
                    Line("item", d, items[i].start, items[i].end, items[i].title)])

RECURSIVE week_lines(_, _)
week_lines(events, i) ==
    IF i > Len(order) THEN <<>>
    ELSE day_lines(events, order[i]) \o week_lines(events, i + 1)

print_week_view(events) ==
    <<TextLine(""), TextLine("WEEKLY VIEW"), TextLine("----------------------------------------")>>
    \o week_lines(events, 1)

----------------------------------------------------------------------------
(* build_ics *)

\* One line of the ICS text: the property, and its value as text, a number
\* and a list of day codes (blank where the property has none).
IcsLine(prop, text, num, days) ==
    [prop |-> prop, text |-> text, num |-> num, days |-> days]

FixedLine(prop) == IcsLine(prop, <<>>, 0, <<>>)

\* The tuple build_ics hashes for the UID (str(date) is its ISO text, one per date).
uid_key(e, term_start, term_end) ==
    <<e.title, e.days, e.start, e.end, term_start, term_end>>

abs(n) == IF n < 0 THEN 0 - n ELSE n

\* until taken at 00:00:00 instead of 23:59:59 (faulty).
until_midnight(term_end) == strftime(term_end, [h |-> 0, m |-> 0, s |-> 0])

until(term_end) == strftime(term_end, [h |-> 23, m |-> 59, s |-> 59])

\* The lines of one VEVENT, for an event whose first occurrence is first.
vevent(e, first, term_start, term_end, hash) ==
    << FixedLine("BEGIN:VEVENT"),
       IcsLine("UID", <<"@", "school-calendar">>,
               abs(hash[uid_key(e, term_start, term_end)]), <<>>),
       IcsLine("SUMMARY", ics_escape(e.title), 0, <<>>),
       IcsLine("DTSTART", strftime(first, parse_hhmm(e.start)), 0, <<>>),
       IcsLine("DTEND", strftime(first, parse_hhmm(e.end)), 0, <<>>),
       IcsLine("RRULE:FREQ=WEEKLY", until(term_end), 0, e.days),
       IcsLine("LOCATION", ics_escape(get(e, "location")), 0, <<>>),
       IcsLine("DESCRIPTION", ics_escape(get(e, "notes")), 0, <<>>),
       FixedLine("END:VEVENT") >>

header(term) ==
    << FixedLine("BEGIN:VCALENDAR"),
       FixedLine("VERSION:2.0"),
       FixedLine("PRODID:-//School Calendar Generator//EN"),
       FixedLine("CALSCALE:GREGORIAN"),
       IcsLine("X-WR-CALNAME", ics_escape(term), 0, <<>>) >>

\* The events build_ics hashes: those with a first occurrence.
hashed_keys(term_start, term_end, events) ==
    { uid_key(events[i], term_start, term_end) :
        i \in { j \in DOMAIN events :
                  first_matching_date(term_start, term_end, events[j].days).tag = "date" } }

\* The loop of build_ics from event i on: the lines it adds, or the
\* ValueError of first_matching_date.
RECURSIVE event_lines(_, _, _, _, _)
event_lines(term_start, term_end, events, i, hash) ==
    IF i > Len(events) THEN [ok |-> TRUE, lines |-> <<>>]
    ELSE LET e == events[i]
             first == first_matching_date(term_start, term_end, e.days)
             rest == event_lines(term_start, term_end, events, i + 1, hash)
         IN  IF first.tag = "ValueError" THEN [ok |-> FALSE, lines |-> <<>>]
             ELSE IF ~rest.ok THEN rest
             ELSE IF first.tag = "None" THEN rest
             ELSE [ok |-> TRUE,
                   lines |-> vevent(e, first.val, term_start, term_end, hash)
                             \o rest.lines]

\* build_ics under the process's hash function: the lines of the text (each
\* ends in CRLF in the joined text), or the exception raised.
build_ics(term, term_start, term_end, events, hash) ==
    LET body == event_lines(term_start, term_end, events, 1, hash)
    IN  IF body.ok
        THEN [ok |-> TRUE,
              lines |-> header(term) \o body.lines \o <<FixedLine("END:VCALENDAR")>>]
        ELSE body

----------------------------------------------------------------------------
(* main *)

NoErr == [exc |-> "", msg |-> "", event |-> 0]

\* An exception; event is the event number its message carries (0: none).
Error(exc, msg, event) == [exc |-> exc, msg |-> msg, event |-> event]

NoCfg == [term |-> <<>>, term_start |-> 0, term_end |-> 0, events |-> <<>>]

NotBuilt == [built |-> FALSE, lines |-> <<>>]

Absent == [exists |-> FALSE, lines |-> <<>>]

REQUIRED == {"title", "days", "start", "end"}

\* validate without the two parse_hhmm calls (faulty).
validate_no_times(e, i) ==
    IF ~(REQUIRED \subseteq DOMAIN e)
    THEN Error("ValueError", "is missing required keys (title/days/start/end).", i)
    ELSE IF \E k \in DOMAIN e.days : e.days[k] \notin DOMAIN DAY_MAP
    THEN Error("ValueError", "has invalid day", i)
    ELSE NoErr

\* The body of the validation loop for event number i: the exception it
\* raises, or NoErr.
validate(e, i) ==
    IF ~(REQUIRED \subseteq DOMAIN e)
    THEN Error("ValueError", "is missing required keys (title/days/start/end).", i)
    ELSE IF \E k \in DOMAIN e.days : e.days[k] \notin DOMAIN DAY_MAP
    THEN Error("ValueError", "has invalid day", i)
    ELSE IF ~parse_hhmm(e.start).ok
    THEN Error("ValueError", parse_hhmm(e.start).msg, 0)
    ELSE IF ~parse_hhmm(e.end).ok
    THEN Error("ValueError", parse_hhmm(e.end).msg, 0)
    ELSE NoErr

Abort(e) ==
    /\ err' = e
    /\ pc' = "aborted"

\* load_courses and the reading of the document's keys.
LoadConfig ==
    /\ pc = "start"
    /\ LET doc == input.doc
           ts == fromisoformat(doc.term_start)
           te == fromisoformat(doc.term_end)
       IN  IF input.state = "missing"
           THEN Abort(Error("FileNotFoundError", "Missing courses.json", 0))
                /\ UNCHANGED <<cfg, idx>>
           ELSE IF input.state = "malformed"
           THEN Abort(Error("JSONDecodeError", "", 0)) /\ UNCHANGED <<cfg, idx>>
           ELSE IF ts.tag # "date" \/ te.tag # "date"
           THEN Abort(Error("ValueError", "Invalid isoformat string", 0))
                /\ UNCHANGED <<cfg, idx>>
           ELSE IF "events" \notin DOMAIN doc
           THEN Abort(Error("KeyError", "events", 0)) /\ UNCHANGED <<cfg, idx>>
           ELSE /\ cfg' = [term |-> doc.term, term_start |-> ts.val,
                           term_end |-> te.val, events |-> doc.events]
                /\ idx' = 1
                /\ pc' = "validate"
                /\ UNCHANGED err
    /\ UNCHANGED <<arg, ret, input, console, ics, file, run>>

\* One turn of the validation loop.
ValidateEvent ==
    /\ pc = "validate"
    /\ idx <= Len(cfg.events)
    /\ LET e == validate(cfg.events[idx], idx)
       IN  IF e # NoErr
           THEN Abort(e) /\ UNCHANGED idx
           ELSE idx' = idx + 1 /\ UNCHANGED <<pc, err>>
    /\ UNCHANGED <<arg, ret, input, cfg, console, ics, file, run>>

\* The validation loop is over: print_week_view(events).
PrintWeekView ==
    /\ pc = "validate"
    /\ idx > Len(cfg.events)
    /\ console' = console \o print_week_view(cfg.events)
    /\ pc' = "build"
    /\ UNCHANGED <<arg, ret, input, cfg, idx, err, ics, file, run>>

\* Bounds of the model.
HashBound == 1
MaxEvents == 2
MaxRuns == 2

\* The values hash() takes: signed, and fixed only within one process.
HashVals == (0 - HashBound)..HashBound

\* ics_text = build_ics(...), under some hash function of this process.
BuildIcs ==
    /\ pc = "build"
    /\ \E hash \in [hashed_keys(cfg.term_start, cfg.term_end, cfg.events) -> HashVals] :
         LET r == build_ics(cfg.term, cfg.term_start, cfg.term_end, cfg.events, hash)
         IN  IF r.ok
             THEN /\ ics' = [built |-> TRUE, lines |-> r.lines]
                  /\ pc' = "write"
                  /\ UNCHANGED err
             ELSE /\ Abort(Error("ValueError", "year 10000 is out of range", 0))
                  /\ UNCHANGED ics
    /\ UNCHANGED <<arg, ret, input, cfg, idx, console, file, run>>

\* out_path.write_text(ics_text) and the closing message.
WriteFile ==
    /\ pc = "write"
    /\ file' = [exists |-> TRUE, lines |-> ics.lines]
    /\ console' = console \o <<TextLine(""), TextLine("Exported: school_calendar.ics")>>
    /\ pc' = "done"
    /\ UNCHANGED <<arg, ret, input, cfg, idx, err, ics, run>>

\* The program is started again, as a new process, on the same courses.json.
Restart ==
    /\ pc \in {"done", "aborted"}
    /\ run < MaxRuns
    /\ run' = run + 1
    /\ pc' = "start"
    /\ cfg' = NoCfg
    /\ idx' = 0
    /\ err' = NoErr
    /\ console' = <<>>
    /\ ics' = NotBuilt
    /\ UNCHANGED <<arg, ret, input, file>>

----------------------------------------------------------------------------
(* The inputs the model runs main on *)

T_0900 == <<"0", "9", ":", "0", "0">>
T_900 == <<"9", ":", "0", "0">>
T_950 == <<"9", ":", "5", "0">>
T_1000 == <<"1", "0", ":", "0", "0">>
T_1115 == <<"1", "1", ":", "1", "5">>
T_2500 == <<"2", "5", ":", "0", "0">>
T_x00 == <<"x", ":", "0", "0">>

Algorithms ==
    [title |-> <<"A">>, days |-> <<"MO", "WE">>, start |-> T_1000, end |-> T_1115]

Early ==
    [title |-> <<"B", ",">>, days |-> <<"WE", "MO">>, start |-> T_900, end |-> T_950,
     location |-> <<"R", ";", "1">>, notes |-> <<"a", CR, LF, "b">>]

Sunday ==
    [title |-> <<"C">>, days |-> <<"SU">>, start |-> T_0900, end |-> T_1000]

NoDays ==
    [title |-> <<"D">>, days |-> <<>>, start |-> T_1000, end |-> T_1115]

NoEnd == [title |-> <<"E">>, days |-> <<"MO">>, start |-> T_1000]

BadDay ==
    [title |-> <<"F">>, days |-> <<"MO", "XX">>, start |-> T_2500, end |-> T_1000]

BadStart ==
    [title |-> <<"G">>, days |-> <<"TU">>, start |-> T_2500, end |-> T_1000]

BadEnd ==
    [title |-> <<"H">>, days |-> <<"FR">>, start |-> T_1000, end |-> T_x00]

EventSet == {Algorithms, Early, Sunday, NoDays, NoEnd, BadDay, BadStart, BadEnd}

EventLists == UNION {[1..n -> EventSet] : n \in 0..MaxEvents}

Ymd(y, m, d) == [y |-> y, m |-> m, d |-> d]

\* The term of the worked example.
ExampleTerm == <<Ymd(2024, 9, 2), Ymd(2024, 12, 13)>>

\* The terms: two weeks from a Monday, a single Monday, the last five days a
\* date can name, and a term whose end precedes its start.
Terms ==
    { <<Ymd(2024, 9, 2), Ymd(2024, 9, 13)>>,
      <<Ymd(2024, 9, 2), Ymd(2024, 9, 2)>>,
      <<Ymd(9999, 12, 27), Ymd(9999, 12, 31)>>,
      <<Ymd(2024, 9, 4), Ymd(2024, 9, 2)>> }

Doc(t, events) ==
    [term |-> <<"F", ",", "2", "4">>, term_start |-> t[1], term_end |-> t[2],
     events |-> events]

Inputs ==
    { [state |-> "ok", doc |-> Doc(t, evs)] : t \in Terms, evs \in EventLists }
    \cup { [state |-> "ok", doc |-> Doc(ExampleTerm, <<Algorithms>>)],
           [state |-> "ok", doc |-> Doc(ExampleTerm, <<Early, Algorithms>>)],
           [state |-> "missing", doc |-> Doc(<<Ymd(2024, 9, 2), Ymd(2024, 9, 2)>>, <<>>)],
           [state |-> "malformed", doc |-> Doc(<<Ymd(2024, 9, 2), Ymd(2024, 9, 2)>>, <<>>)],
           [state |-> "ok", doc |-> Doc(<<Ymd(2024, 2, 30), Ymd(2024, 9, 2)>>, <<Algorithms>>)],
           [state |-> "ok",
            doc |-> [term |-> <<"F">>, term_start |-> Ymd(2024, 9, 2),
                     term_end |-> Ymd(2024, 9, 2)]] }

\* A file left by some earlier use of the path.
OldFile == [exists |-> TRUE, lines |-> <<FixedLine("OLD")>>]

InitMain(inputs, files) ==
    /\ arg = <<>>
    /\ ret = Pending
    /\ pc = "start"
    /\ input \in inputs
    /\ cfg = NoCfg
    /\ idx = 0
    /\ err = NoErr
    /\ console = <<>>
    /\ ics = NotBuilt
    /\ file \in files
    /\ run = 1

Init == InitMain(Inputs, {Absent, OldFile})

Next ==
    \/ LoadConfig
    \/ ValidateEvent
    \/ PrintWeekView
    \/ BuildIcs
    \/ WriteFile

Spec == Init /\ [][Next]_vars

----------------------------------------------------------------------------
(* first_matching_date on its own *)

WindowLen == 9
MaxDays == 2

DayLists == UNION {[1..n -> DOMAIN DAY_MAP] : n \in 0..MaxDays}

\* Term bounds from two windows of dates: from Monday 2024-09-02 on, and
\* the last days a date can name.
Windows ==
    { ymd2ord(2024, 9, 2)..(ymd2ord(2024, 9, 2) + WindowLen - 1),
      (MAXORDINAL - WindowLen + 1)..MAXORDINAL }

FirstArgs ==
    { [term_start |-> a, term_end |-> b, days |-> ds] :
        a \in UNION Windows, b \in UNION Windows, ds \in DayLists }

InitFirst ==
    /\ arg \in { a \in FirstArgs : \E w \in Windows : a.term_start \in w /\ a.term_end \in w }
    /\ ret = Pending
    /\ pc = "call"
    /\ input = [state |-> "none"]
    /\ cfg = NoCfg
    /\ idx = 0
    /\ err = NoErr
    /\ console = <<>>
    /\ ics = NotBuilt
    /\ file = Absent
    /\ run = 1

CallFirstMatchingDate ==
    /\ pc = "call"
    /\ ret' = first_matching_date(arg.term_start, arg.term_end, arg.days)
    /\ pc' = "returned"
    /\ UNCHANGED <<arg, input, cfg, idx, err, console, ics, file, run>>

NextFirst == CallFirstMatchingDate

SpecFirst == InitFirst /\ [][NextFirst]_vars

\* The dates of the window whose weekday is among the day codes asked for.
Matching(a) ==
    { d \in a.term_start..a.term_end :
        \E i \in DOMAIN a.days : a.days[i] = order[weekday(d) + 1] }

Earliest(S) == CHOOSE d \in S : \A x \in S : d <= x

\* C1: first_matching_date returns the earliest date of the window
\* [term_start, term_end] whose weekday is in the day set, and None exactly
\* when the window holds no such date (so a date for a non-empty set and a
\* window of 7 days or more, and the single day's test when start = end).
C1_FirstMatchingDate ==
    pc = "returned" =>
        /\ ret.tag \in {"date", "None"}
        /\ (ret.tag = "None") <=> (Matching(arg) = {})
        /\ ret.tag = "date" => ret.val = Earliest(Matching(arg))
        /\ (arg.days # <<>> /\ arg.term_end - arg.term_start >= 6) => ret.tag = "date"

----------------------------------------------------------------------------
(* ics_escape on its own *)

MaxLen == 3

EscChars == {BS, CR, LF, ",", ";", "n"}

EscInputs == UNION {[1..n -> EscChars] : n \in 0..MaxLen}

InitEscape ==
    /\ arg \in EscInputs
    /\ ret = Pending
    /\ pc = "call"
    /\ input = [state |-> "none"]
    /\ cfg = NoCfg
    /\ idx = 0
    /\ err = NoErr
    /\ console = <<>>
    /\ ics = NotBuilt
    /\ file = Absent
    /\ run = 1

CallIcsEscape ==
    /\ pc = "call"
    /\ ret' = [tag |-> "str", val |-> ics_escape(arg)]
    /\ pc' = "returned"
    /\ UNCHANGED <<arg, input, cfg, idx, err, console, ics, file, run>>

NextEscape == CallIcsEscape

SpecEscape == InitEscape /\ [][NextEscape]_vars

\* The inverse of the documented rules, read left to right: \\ is a
\* backslash, \n a newline, \, a comma and \; a semicolon.
RECURSIVE unescape(_)
unescape(s) ==
    IF s = <<>> THEN <<>>
    ELSE IF Head(s) = BS /\ Len(s) >= 2 /\ s[2] \in {BS, "n", ",", ";"}
    THEN <<IF s[2] = "n" THEN LF ELSE s[2]>> \o unescape(Drop(s, 2))
    ELSE <<Head(s)>> \o unescape(Tail(s))

\* The text with each line break (a CR LF pair, else a lone CR, else an LF)
\* in its LF form.
RECURSIVE LineBreaksAsLF(_)
LineBreaksAsLF(s) ==
    IF s = <<>> THEN <<>>
    ELSE IF Head(s) = CR /\ Len(s) >= 2 /\ s[2] = LF
    THEN <<LF>> \o LineBreaksAsLF(Drop(s, 2))
    ELSE IF Head(s) = CR THEN <<LF>> \o LineBreaksAsLF(Tail(s))
    ELSE <<Head(s)>> \o LineBreaksAsLF(Tail(s))

Has(s, c) == \E i \in DOMAIN s : s[i] = c

Count(s, c) == Cardinality({i \in DOMAIN s : s[i] = c})

\* C2 as stated: escaping and then undoing the documented rules gives back
\* the input, whatever form its line breaks take.
C2_RoundTripOriginal ==
    pc = "returned" => unescape(ret.val) = arg

\* C2 as amended: escaping and then undoing the documented rules gives back
\* the input with every line break in its LF form, which is the input
\* itself exactly when the input holds no CR.
C2_RoundTripUpToLineBreaks ==
    pc = "returned" =>
        /\ unescape(ret.val) = LineBreaksAsLF(arg)
        /\ (unescape(ret.val) = arg) <=> ~Has(arg, CR)

C2_Witness ==
    /\ pc = "returned"
    /\ arg = <<BS, CR, LF>>
    /\ unescape(ret.val) = <<BS, LF>>

\* The number of \n escapes in an escaped text, read left to right.
RECURSIVE NewlineEscapes(_)
NewlineEscapes(s) ==
    IF s = <<>> THEN 0
    ELSE IF Head(s) = BS /\ Len(s) >= 2
    THEN (IF s[2] = "n" THEN 1 ELSE 0) + NewlineEscapes(Drop(s, 2))
    ELSE NewlineEscapes(Tail(s))

\* C3: texts that differ only in the form of their line breaks escape to
\* the same text, every line break becomes one \n escape, and the escaped
\* text holds no raw CR or LF.
C3_NewlineNormalization ==
    pc = "returned" =>
        /\ \A t \in EscInputs :
             LineBreaksAsLF(t) = LineBreaksAsLF(arg) => ics_escape(t) = ret.val
        /\ NewlineEscapes(ret.val) = Count(LineBreaksAsLF(arg), LF)
        /\ ~Has(ret.val, CR) /\ ~Has(ret.val, LF)

C3_Witness ==
    /\ pc = "returned"
    /\ arg = <<CR, LF, CR>>
    /\ ret.val = <<BS, "n", BS, "n">>

----------------------------------------------------------------------------
(* Repeated runs of the program *)

RunInputs ==
    { [state |-> "ok", doc |-> Doc(t, <<e>>)] :
        t \in Terms, e \in {Algorithms, Early, Sunday} }

InitRuns == InitMain(RunInputs, {Absent})

NextRuns == Next \/ Restart

SpecRuns == InitRuns /\ [][NextRuns]_vars

----------------------------------------------------------------------------
(* What the claims speak of *)

\* The rule an event record breaks, in the order the rules are listed:
\* a missing key, then a day code outside MO..SU, then a start or end that
\* is no HH:MM time of day.
Violation(e) ==
    IF \E k \in REQUIRED : k \notin DOMAIN e THEN "missing"
    ELSE IF \E i \in DOMAIN e.days : \A j \in DOMAIN order : e.days[i] # order[j]
    THEN "day"
    ELSE IF ~parse_hhmm(e.start).ok \/ ~parse_hhmm(e.end).ok THEN "time"
    ELSE "none"

AllValid(events) == \A i \in DOMAIN events : Violation(events[i]) = "none"

FirstViolation(events) ==
    CHOOSE i \in DOMAIN events :
        /\ Violation(events[i]) # "none"
        /\ \A j \in 1..(i - 1) : Violation(events[j]) = "none"

\* The kind of violation an error message names.
ErrKind(e) ==
    IF e.msg = "is missing required keys (title/days/start/end)." THEN "missing"
    ELSE IF e.msg = "has invalid day" THEN "day"
    ELSE IF e.msg \in {"hour must be in 0..23", "minute must be in 0..59",
                       "invalid literal for int()", "not enough values to unpack",
                       "too many values to unpack"}
    THEN "time"
    ELSE "other"

\* The run ended in the validation loop.
AbortedInValidation == pc = "aborted" /\ idx >= 1 /\ console = <<>>

\* The run ended before the validation loop: the document did not load.
AbortedInLoading == pc = "aborted" /\ idx = 0

\* C5: validation goes through the events in order and aborts at the first
\* one that breaks a rule, with an error that names that event's 1-indexed
\* position and the kind of violation, whichever of the three kinds it is;
\* no later event is examined.
C5_ValidationError ==
    /\ AbortedInValidation =>
         /\ ~AllValid(cfg.events)
         /\ idx = FirstViolation(cfg.events)
         /\ err.event = FirstViolation(cfg.events)
         /\ ErrKind(err) = Violation(cfg.events[FirstViolation(cfg.events)])
    /\ console # <<>> => AllValid(cfg.events)

\* The state of the output file, and what main has done so far.
ViewPrinted == console # <<>>

\* C6, the states: the weekly view is printed only once the document loaded
\* and every event validated, the ICS text is built only after the view was
\* printed, and a run that failed in loading or validation printed no view
\* and built no text.
C6_Stages ==
    /\ ViewPrinted => input.state = "ok" /\ cfg # NoCfg /\ AllValid(cfg.events)
                      /\ idx = Len(cfg.events) + 1
    /\ ics.built => ViewPrinted /\ pc \in {"write", "done"}
    /\ (AbortedInLoading \/ AbortedInValidation) => ~ViewPrinted /\ ~ics.built
    /\ pc = "done" => ics.built /\ file = [exists |-> TRUE, lines |-> ics.lines]

\* C6, the steps: the output file changes only in the step that writes the
\* fully built ICS text of a run whose events all validated.
C6_FileStep ==
    file' # file =>
        /\ ics.built /\ ViewPrinted /\ AllValid(cfg.events)
        /\ file' = [exists |-> TRUE, lines |-> ics.lines]
        /\ pc' = "done"

\* C6: the run goes load, validate every event, print the weekly view,
\* build the ICS, write the file; a run that fails in loading or validation
\* prints no view and leaves the output file as it was, and the file is
\* written only by runs whose events all validated and whose ICS text was
\* fully built.
C6_FailFast == []C6_Stages /\ [][C6_FileStep]_vars

C6_Witness ==
    /\ AbortedInValidation
    /\ idx = 2
    /\ file = OldFile
    /\ ~ViewPrinted

\* The start of an event as minutes after midnight.
StartMinutes(e) == parse_hhmm(e.start).h * 60 + parse_hhmm(e.start).m

\* The positions of the events held on the weekday d, by start time of day
\* and, among equal start times, by position in the input.
ByStartTime(events, d) ==
    LET on == {i \in DOMAIN events : \E k \in DOMAIN events[i].days : events[i].days[k] = d}
        before(i, j) ==
            \/ StartMinutes(events[i]) < StartMinutes(events[j])
            \/ StartMinutes(events[i]) = StartMinutes(events[j]) /\ i < j
    IN  CHOOSE f \in [1..Cardinality(on) -> on] :
            \A a, b \in 1..Cardinality(on) : a < b => before(f[a], f[b])

\* The view the claim describes for the weekday d.
ExpectedDay(events, d) ==
    LET f == ByStartTime(events, d)
    IN  <<TextLine(""), Line("day", d, <<>>, <<>>, <<>>)>>
        \o (IF Len(f) = 0
            THEN <<TextLine("  (none)")>>
            ELSE [k \in 1..Len(f) |->
                    Line("item", d, events[f[k]].start, events[f[k]].end,
                         events[f[k]].title)])

ExpectedView(events) ==
    <<TextLine(""), TextLine("WEEKLY VIEW"), TextLine("----------------------------------------")>>
    \o ExpectedDay(events, "MO") \o ExpectedDay(events, "TU")
    \o ExpectedDay(events, "WE") \o ExpectedDay(events, "TH")
    \o ExpectedDay(events, "FR") \o ExpectedDay(events, "SA")
    \o ExpectedDay(events, "SU")

\* C7: under each weekday, MO to SU, the weekly view lists exactly the
\* events held that day, by start time of day ascending and in input order
\* among equal start times, also for start times written without zero
\* padding; a weekday without events shows "(none)".
C7_WeekViewOrder ==
    ViewPrinted =>
        SubSeq(console, 1, Len(ExpectedView(cfg.events))) = ExpectedView(cfg.events)

\* The events with an occurrence in the term window, in input order.
Occurring ==
    SelectSeq(cfg.events,
              LAMBDA e : Matching([term_start |-> cfg.term_start,
                                   term_end |-> cfg.term_end, days |-> e.days]) # {})

FirstOccurrence(e) ==
    Earliest(Matching([term_start |-> cfg.term_start, term_end |-> cfg.term_end,
                       days |-> e.days]))

HeaderLen == Len(header(<<>>))
BlockLen == Len(vevent(Algorithms, 1, 1, 1, [k \in {uid_key(Algorithms, 1, 1)} |-> 0]))

\* Line n of the k-th VEVENT block of the text.
BlockLine(lines, k, n) == lines[HeaderLen + (k - 1) * BlockLen + n]

Props(lines) == [i \in DOMAIN lines |-> lines[i].prop]

\* build_ics has returned or raised.
BuildOver == ViewPrinted /\ pc # "build"

\* C8: for any term and validated events build_ics returns a text that
\* starts with the VCALENDAR header, ends with END:VCALENDAR, and holds
\* between them one VEVENT block per event with an occurrence in the term
\* window, in input order; an event without one adds no block and raises
\* no error.
C8_VeventSequence ==
    BuildOver =>
        /\ ics.built
        /\ Len(ics.lines) = HeaderLen + BlockLen * Len(Occurring) + 1
        /\ SubSeq(Props(ics.lines), 1, HeaderLen) = Props(header(cfg.term))
        /\ ics.lines[Len(ics.lines)].prop = "END:VCALENDAR"
        /\ \A k \in 1..Len(Occurring) :
             /\ BlockLine(ics.lines, k, 1).prop = "BEGIN:VEVENT"
             /\ BlockLine(ics.lines, k, 3) =
                    IcsLine("SUMMARY", ics_escape(Occurring[k].title), 0, <<>>)
             /\ BlockLine(ics.lines, k, BlockLen).prop = "END:VEVENT"
        /\ Count(Props(ics.lines), "BEGIN:VEVENT") = Len(Occurring)
        /\ Count(Props(ics.lines), "END:VEVENT") = Len(Occurring)

\* a is not after b, for two stamps YYYYMMDDTHHMMSS.
RECURSIVE StampLeq(_, _)
StampLeq(a, b) ==
    IF a = <<>> \/ b = <<>> THEN a = <<>>
    ELSE IF Head(a) = Head(b) THEN StampLeq(Tail(a), Tail(b))
    ELSE DigitVal(Head(a)) < DigitVal(Head(b))

\* C9: in every VEVENT of the text, DTSTART and DTEND are the event's first
\* occurrence (one date, within the term) at its start and end time of day,
\* and the RRULE lists the event's day codes in input order with UNTIL the
\* term's end at 23:59:59, so DTSTART is never after UNTIL; the worked
\* example gives 20240902T100000, 20240902T111500, MO,WE, 20241213T235959.
C9_VeventContent ==
    ics.built =>
        /\ \A k \in 1..Len(Occurring) :
             LET e == Occurring[k]
                 first == FirstOccurrence(e)
                 dtstart == BlockLine(ics.lines, k, 4)
                 dtend == BlockLine(ics.lines, k, 5)
                 rrule == BlockLine(ics.lines, k, 6)
             IN  /\ cfg.term_start <= first /\ first <= cfg.term_end
                 /\ dtstart.prop = "DTSTART"
                 /\ dtstart.text =
                      Pad(ord2ymd(first).y, 4) \o Pad(ord2ymd(first).m, 2)
                      \o Pad(ord2ymd(first).d, 2) \o <<"T">>
                      \o Pad(parse_hhmm(e.start).h, 2) \o Pad(parse_hhmm(e.start).m, 2)
                      \o <<"0", "0">>
                 /\ dtend.prop = "DTEND"
                 /\ dtend.text =
                      SubSeq(dtstart.text, 1, 9)
                      \o Pad(parse_hhmm(e.end).h, 2) \o Pad(parse_hhmm(e.end).m, 2)
                      \o <<"0", "0">>
                 /\ rrule.prop = "RRULE:FREQ=WEEKLY"
                 /\ rrule.days = e.days
                 /\ rrule.text =
                      Pad(ord2ymd(cfg.term_end).y, 4) \o Pad(ord2ymd(cfg.term_end).m, 2)
                      \o Pad(ord2ymd(cfg.term_end).d, 2)
                      \o <<"T", "2", "3", "5", "9", "5", "9">>
                 /\ StampLeq(dtstart.text, rrule.text)
        /\ input.doc = Doc(ExampleTerm, <<Algorithms>>) =>
             /\ BlockLine(ics.lines, 1, 4).text =
                  <<"2", "0", "2", "4", "0", "9", "0", "2", "T", "1", "0", "0", "0", "0", "0">>
             /\ BlockLine(ics.lines, 1, 5).text =
                  <<"2", "0", "2", "4", "0", "9", "0", "2", "T", "1", "1", "1", "5", "0", "0">>
             /\ BlockLine(ics.lines, 1, 6).days = <<"MO", "WE">>
             /\ BlockLine(ics.lines, 1, 6).text =
                  <<"2", "0", "2", "4", "1", "2", "1", "3", "T", "2", "3", "5", "9", "5", "9">>

C9_Witness ==
    /\ pc = "done"
    /\ input.doc = Doc(ExampleTerm, <<Algorithms>>)
    /\ Len(Occurring) = 1
    /\ file.lines = ics.lines
    /\ BlockLine(file.lines, 1, 6).days = <<"MO", "WE">>

\* C10: every event that passed validation and reaches print_week_view and
\* build_ics has a day list that is not empty.
C10_DaysNonEmpty ==
    ViewPrinted => \A i \in DOMAIN cfg.events : cfg.events[i].days # <<>>

\* The UIDs of a text, in order.
Uids(lines) ==
    LET u == SelectSeq(lines, LAMBDA l : l.prop = "UID")
    IN  [i \in DOMAIN u |-> u[i].num]

\* C4: a second run of the program on the same input gives every event the
\* UID the first run gave it, and within a text events that differ in
\* title, days, start, end or the term bounds have different UIDs.
C4_UidDeterminism ==
    /\ (ics.built /\ file.exists /\ run > 1) => Uids(ics.lines) = Uids(file.lines)
    /\ ics.built =>
         \A j, k \in 1..Len(Occurring) :
            uid_key(Occurring[j], cfg.term_start, cfg.term_end)
                # uid_key(Occurring[k], cfg.term_start, cfg.term_end)
            => BlockLine(ics.lines, j, 2).num # BlockLine(ics.lines, k, 2).num

====
